---------------------------- MODULE Spec2Model ----------------------------
(***************************************************************************)
(* libeverdrive: the 16-byte command codec (EdCommand::to_bytes), the      *)
(* session operations of Everdrive over the serial port, and the ROM       *)
(* loader (load_rom / load_rom_force), src/src/lib.rs and src/src/edos.rs, *)
(* and the UNF packet codec (UnfSendPacket, unf_tx, unf_rx), src/src/unf.rs.*)
(*                                                                         *)
(* Representation.                                                         *)
(*  - A byte is an integer 0..255.                                         *)
(*  - A u32 is the pair <<hi, lo>> of its 16-bit halves, so that values    *)
(*    up to 0xFFFFFFFF keep their width.                                   *)
(*  - A byte buffer (Vec<u8>, &[u8], [u8; N]) is [len, head]: len is its   *)
(*    length and head its first Len(head) bytes; every byte from           *)
(*    Len(head) to len-1 is 0.  A buffer of 0x101000 bytes is then a       *)
(*    value TLC can hold.                                                  *)
(*  - The serial port is the list of the write_all and read_exact calls    *)
(*    made on it, in order (io), and the bytes the device has sent that    *)
(*    no read has consumed yet (rx).                                       *)
(***************************************************************************)
EXTENDS Integers, Sequences, FiniteSets, TLC

VARIABLES
    session,   \* "none" | "open" | "failed": what Everdrive::new returned
    pc,        \* "idle" | "call" | "done": the caller's position
    req,       \* the call being made: its operation and arguments
    io,        \* the write_all and read_exact calls of the call, in order
    res,       \* the Result the call returned ("Ok", an error kind, "panic")
    ret,       \* the value inside Ok(..): NoValue for Ok(()), or a packet
    rxbuf,     \* bytes sent by the device and not yet consumed
    inq,       \* history: the device's bytes the call had before it (rxbuf
               \* at its start, then what the device sent during it)
    pending,   \* history: a command written in an earlier call is owed
               \* response bytes that no read has taken yet
    piped,     \* history: the call wrote a command while pending
    ncalls,    \* calls completed on this port
    pkt,       \* the UnfSendPacket the caller holds (NoValue: none)
    built,     \* history: that packet as UnfSendPacket::new returned it
    nwrites,   \* writes the caller has made through the packet's get_data view
    mutex,     \* two contexts: whether each operation runs under mutual exclusion
    holder,    \* two contexts: the context inside an operation (0: none)
    cpc,       \* two contexts: each context's operation and its next port call
    who        \* two contexts, history: for each port call in io, the context
               \* and operation that made it, whether it was the last of it,
               \* its result and whether the device answered it

\* the caller's packet, and the two execution contexts
pktvars == <<pkt, built, nwrites>>
concvars == <<mutex, holder, cpc, who>>

vars == <<session, pc, req, io, res, ret, rxbuf, inq, pending, piped, ncalls,
          pktvars, concvars>>

\* ------------------------------------------------------------------ bounds

MaxCalls == 2

\* writes the caller makes through a packet's payload view
MaxWrites == 2

\* --------------------------------------------------------------- integers

Min(a, b) == IF a < b THEN a ELSE b
Max(a, b) == IF a > b THEN a ELSE b

\* u32 as <<hi, lo>>, value hi * 65536 + lo
U32(hi, lo) == <<hi, lo>>
U32Zero == <<0, 0>>

\* u32::to_be_bytes
to_be_bytes(x) == <<x[1] \div 256, x[1] % 256, x[2] \div 256, x[2] % 256>>

\* u32::from_be_bytes
from_be_bytes(b0, b1, b2, b3) == <<b0 * 256 + b1, b2 * 256 + b3>>

\* `n as u32` of a usize n
as_u32(n) == <<(n \div 65536) % 65536, n % 65536>>

\* `b as u32` of a bool
bool_as_u32(b) == IF b THEN <<0, 1>> ELSE <<0, 0>>

\* x % 512 and x / 512 on u32
U32Rem512(x) == x[2] % 512
U32Div512(x) == <<x[1] \div 512, (x[1] % 512) * 128 + x[2] \div 512>>

\* a | b on u8
RECURSIVE BitOr(_, _)
BitOr(a, b) ==
    IF a = 0 THEN b
    ELSE IF b = 0 THEN a
    ELSE (IF a % 2 = 1 \/ b % 2 = 1 THEN 1 ELSE 0) + 2 * BitOr(a \div 2, b \div 2)

\* a << n on u8: the bits shifted past bit 7 are lost
RECURSIVE Shl8(_, _)
Shl8(a, n) == IF n = 0 THEN a ELSE Shl8((a * 2) % 256, n - 1)

\* ---------------------------------------------------------------- buffers

Buf(n, h) == [len |-> n, head |-> h]

\* buf[i], 0-based, for i < buf.len
At(b, i) == IF i < Len(b.head) THEN b.head[i + 1] ELSE 0

\* the same buffer with its explicit prefix grown (by zeros) to cover n bytes
Extend(b, n) ==
    LET m == Min(n, b.len) IN
    IF m <= Len(b.head) THEN b
    ELSE [b EXCEPT !.head = [k \in 1..m |-> IF k <= Len(b.head) THEN b.head[k] ELSE 0]]

\* buf[i] = v, for i < buf.len
SetAt(b, i, v) ==
    LET e == Extend(b, i + 1) IN [e EXCEPT !.head[i + 1] = v]

\* <[u8]>::swap(i, j), for i, j < buf.len
Swap(b, i, j) ==
    IF i >= Len(b.head) /\ j >= Len(b.head) THEN b
    ELSE LET e == Extend(b, Max(i, j) + 1) IN
         [e EXCEPT !.head = [k \in 1..Len(e.head) |->
                                IF k = i + 1 THEN e.head[j + 1]
                                ELSE IF k = j + 1 THEN e.head[i + 1]
                                ELSE e.head[k]]]

\* the buffer of a dense byte sequence
Dense(seq) == Buf(Len(seq), seq)

\* ---------------------------------------------------------------- EdCommand

Test == [t |-> "Test"]
RamRead(addr, size) == [t |-> "RamRead", addr |-> addr, size |-> size]
RomRead(addr, size) == [t |-> "RomRead", addr |-> addr, size |-> size]
RomWrite(addr, size) == [t |-> "RomWrite", addr |-> addr, size |-> size]
RomFill(addr, size, arg) == [t |-> "RomFill", addr |-> addr, size |-> size, arg |-> arg]
FpgaInit(size) == [t |-> "FpgaInit", size |-> size]
AppStart(save_path) == [t |-> "AppStart", save_path |-> save_path]

\* cmd_fields with RomRead given RamRead's letter
cmd_fields_same_letter(c) ==
    CASE c.t = "Test"     -> <<116, U32Zero, U32Zero, U32Zero>>
      [] c.t = "RamRead"  -> <<114, c.addr, c.size, U32Zero>>
      [] c.t = "RomRead"  -> <<114, c.addr, c.size, U32Zero>>
      [] c.t = "RomWrite" -> <<87, c.addr, c.size, U32Zero>>
      [] c.t = "RomFill"  -> <<99, c.addr, c.size, c.arg>>
      [] c.t = "FpgaInit" -> <<102, U32Zero, c.size, U32Zero>>
      [] c.t = "AppStart" -> <<115, U32Zero, U32Zero, bool_as_u32(c.save_path)>>

\* the (cmd, addr, size, arg) tuple EdCommand::to_bytes matches out of a command
cmd_fields(c) ==
    CASE c.t = "Test"     -> <<116, U32Zero, U32Zero, U32Zero>>
      [] c.t = "RamRead"  -> <<114, c.addr, c.size, U32Zero>>
      [] c.t = "RomRead"  -> <<82, c.addr, c.size, U32Zero>>
      [] c.t = "RomWrite" -> <<87, c.addr, c.size, U32Zero>>
      [] c.t = "RomFill"  -> <<99, c.addr, c.size, c.arg>>
      [] c.t = "FpgaInit" -> <<102, U32Zero, c.size, U32Zero>>
      [] c.t = "AppStart" -> <<115, U32Zero, U32Zero, bool_as_u32(c.save_path)>>

\* to_bytes storing the size in bytes, not in blocks of 512
to_bytes_raw_size(c) ==
    LET f == cmd_fields(c)
        size == f[3] IN
    IF U32Rem512(size) # 0
    THEN [ok |-> FALSE, err |-> "InvalidInput"]
    ELSE [ok |-> TRUE,
          bytes |-> <<99, 109, 100, f[1]>>
                    \o to_be_bytes(f[2])
                    \o to_be_bytes(size)
                    \o to_be_bytes(f[4])]

\* EdCommand::to_bytes: Err(InvalidInput) or Ok([u8; 16])
to_bytes(c) ==
    LET f == cmd_fields(c)
        size == f[3] IN
    IF U32Rem512(size) # 0
    THEN [ok |-> FALSE, err |-> "InvalidInput"]
    ELSE [ok |-> TRUE,
          bytes |-> <<99, 109, 100, f[1]>>
                    \o to_be_bytes(f[2])
                    \o to_be_bytes(U32Div512(size))
                    \o to_be_bytes(f[4])]

\* ------------------------------------------------------------ serial port

(***************************************************************************)
(* The port during one call: s.io is the write_all and read_exact calls    *)
(* made so far, s.rx the bytes the device has sent that are still unread,  *)
(* s.err the Result so far ("Ok" or the error kind), and s.fail the        *)
(* ordinal of the port call on which the transport reports an I/O error    *)
(* (0: none does).  write_all and read_exact of an empty buffer return Ok  *)
(* without a call of the transport.  s.ret is the value the call returns   *)
(* inside Ok(..).                                                          *)
(***************************************************************************)
IsErr(s) == s.err # "Ok"
Fail(s, kind) == [s EXCEPT !.err = kind]
NextIo(s) == Len(s.io) + 1

WriteEv(b, ok) == [k |-> "w", buf |-> b, ok |-> ok]
ReadEv(n, got, ok) == [k |-> "r", n |-> n, got |-> got, ok |-> ok]

\* SerialPort::write_all(buf): all of buf is written, or the transport fails
port_write_all(s, b) ==
    IF NextIo(s) = s.fail /\ b.len > 0
    THEN [s EXCEPT !.io = Append(@, WriteEv(b, FALSE)), !.err = "IoError"]
    ELSE [s EXCEPT !.io = Append(@, WriteEv(b, TRUE))]

\* SerialPort::read_exact(buf) with buf.len() = n: n bytes are taken from the
\* stream; when the device has sent fewer, what there is is taken and the
\* port's timeout ends the read
port_read_exact(s, n) ==
    IF NextIo(s) = s.fail /\ n > 0
    THEN [s EXCEPT !.io = Append(@, ReadEv(n, <<>>, FALSE)), !.err = "IoError"]
    ELSE IF Len(s.rx) < n
    THEN [s EXCEPT !.io = Append(@, ReadEv(n, s.rx, FALSE)),
                   !.rx = <<>>,
                   !.err = "TimedOut"]
    ELSE [s EXCEPT !.io = Append(@, ReadEv(n, SubSeq(s.rx, 1, n), TRUE)),
                   !.rx = SubSeq(s.rx, n + 1, Len(s.rx))]

\* Everdrive::write
write(s, b) == port_write_all(s, b)

\* Everdrive::read, into a buffer of n bytes
read(s, n) == port_read_exact(s, n)

\* Everdrive::tx
tx(s, c) ==
    LET b == to_bytes(c) IN
    IF ~b.ok THEN Fail(s, b.err) ELSE port_write_all(s, Dense(b.bytes))

\* rx that checks the "cmd" prefix and not the letter
rx_any_letter(s, resp) ==
    LET s1 == read(s, 16) IN
    IF IsErr(s1) THEN s1
    ELSE LET recv_buf == s1.io[Len(s1.io)].got IN
         IF SubSeq(recv_buf, 1, 3) = <<99, 109, 100>>
         THEN s1
         ELSE Fail(s1, "InvalidData")

\* Everdrive::rx
rx(s, resp) ==
    LET s1 == read(s, 16) IN
    IF IsErr(s1) THEN s1
    ELSE LET recv_buf == s1.io[Len(s1.io)].got IN
         IF SubSeq(recv_buf, 1, 4) = <<99, 109, 100, resp>>
         THEN s1
         ELSE Fail(s1, "InvalidData")

\* status that sends Test and does not wait for the ack
status_no_ack(s) == tx(s, Test)

\* Everdrive::status
status(s) ==
    LET s1 == tx(s, Test) IN
    IF IsErr(s1) THEN s1 ELSE rx(s1, 114)

\* rom_fill that awaits an ack after the command
rom_fill_with_ack(s, addr, size, val) ==
    LET s1 == tx(s, RomFill(addr, size, val)) IN
    IF IsErr(s1) THEN s1 ELSE rx(s1, 114)

\* Everdrive::rom_fill
rom_fill(s, addr, size, val) == tx(s, RomFill(addr, size, val))

\* rom_read that awaits an ack frame before the payload
rom_read_with_ack(s, addr, n) ==
    LET s1 == tx(s, RomRead(addr, as_u32(n))) IN
    IF IsErr(s1) THEN s1
    ELSE LET s2 == rx(s1, 114) IN
         IF IsErr(s2) THEN s2 ELSE read(s2, n)

\* Everdrive::rom_read, buf.len() = n
rom_read(s, addr, n) ==
    LET s1 == tx(s, RomRead(addr, as_u32(n))) IN
    IF IsErr(s1) THEN s1 ELSE read(s1, n)

\* Everdrive::ram_read, buf.len() = n
ram_read(s, addr, n) ==
    LET s1 == tx(s, RamRead(addr, as_u32(n))) IN
    IF IsErr(s1) THEN s1 ELSE read(s1, n)

\* rom_write that awaits an ack after the data
rom_write_with_ack(s, addr, data) ==
    LET s1 == tx(s, RomWrite(addr, as_u32(data.len))) IN
    IF IsErr(s1) THEN s1
    ELSE LET s2 == write(s1, data) IN
         IF IsErr(s2) THEN s2 ELSE rx(s2, 114)

\* Everdrive::rom_write
rom_write(s, addr, data) ==
    LET s1 == tx(s, RomWrite(addr, as_u32(data.len))) IN
    IF IsErr(s1) THEN s1 ELSE write(s1, data)

\* fpga_init that turns a nonzero byte 5 of the ack into an error
fpga_init_checks_code(s, size, data) ==
    LET s1 == tx(s, FpgaInit(size)) IN
    IF IsErr(s1) THEN s1
    ELSE LET s2 == write(s1, data) IN
         IF IsErr(s2) THEN s2
         ELSE LET s3 == rx(s2, 114) IN
              IF IsErr(s3) THEN s3
              ELSE IF s3.io[Len(s3.io)].got[6] # 0 THEN Fail(s3, "Other") ELSE s3

\* Everdrive::fpga_init
fpga_init(s, size, data) ==
    LET s1 == tx(s, FpgaInit(size)) IN
    IF IsErr(s1) THEN s1
    ELSE LET s2 == write(s1, data) IN
         IF IsErr(s2) THEN s2 ELSE rx(s2, 114)

\* Option<T>
None == [some |-> FALSE]
Some(v) == [some |-> TRUE, v |-> v]

\* app_start that accepts a name of exactly 256 bytes
app_start_accepts_256(s, file_name) ==
    IF file_name.some /\ Len(file_name.v) > 256
    THEN Fail(s, "InvalidInput")
    ELSE LET file_name_buf == IF file_name.some THEN Some(Buf(256, file_name.v)) ELSE None
             s1 == tx(s, AppStart(file_name_buf.some)) IN
         IF IsErr(s1) THEN s1
         ELSE IF file_name_buf.some THEN write(s1, file_name_buf.v) ELSE s1

\* Everdrive::app_start; file_name is an Option of the name's bytes
app_start(s, file_name) ==
    IF file_name.some /\ Len(file_name.v) >= 256
    THEN Fail(s, "InvalidInput")
    ELSE LET file_name_buf == IF file_name.some THEN Some(Buf(256, file_name.v)) ELSE None
             s1 == tx(s, AppStart(file_name_buf.some)) IN
         IF IsErr(s1) THEN s1
         ELSE IF file_name_buf.some THEN write(s1, file_name_buf.v) ELSE s1

\* -------------------------------------------------------------- ROM loader

ROM_BASE_ADDR == U32(\h1000, 0)
ROM_BASE_ADDR_EMU == U32(\h1020, 0)
CRC_AREA_SIZE == 1052672

\* b"EverDrive bootloader"
ED_HEADER == <<69, 118, 101, 114, 68, 114, 105, 118, 101, 32,
               98, 111, 111, 116, 108, 111, 97, 100, 101, 114>>

\* Everdrive::is_ed_bootloader: ED_HEADER zipped with data.iter().skip(0x20);
\* zip ends with the shorter of the two, all() of no pair is true
is_ed_bootloader(data) ==
    LET pairs == Min(Len(ED_HEADER), Max(data.len - 32, 0)) IN
    \A k \in 1..pairs : ED_HEADER[k] = At(data, 32 + k - 1)

\* `for i in (0..rom_file.len()).step_by(2) { rom_file.swap(i, i + 1) }` from
\* index i on.  swap panics on an index >= len.  Past the explicit prefix
\* every byte is 0 and a swap changes nothing: what is left to decide there
\* is whether the last swap is in bounds.
RECURSIVE swap2_loop(_, _)
swap2_loop(b, i) ==
    IF i >= b.len THEN [panic |-> FALSE, buf |-> b]
    ELSE IF i + 1 >= b.len THEN [panic |-> TRUE, buf |-> b]
    ELSE IF i >= Len(b.head) THEN [panic |-> (b.len - i) % 2 # 0, buf |-> b]
    ELSE swap2_loop(Swap(b, i, i + 1), i + 2)

\* `for i in (0..rom_file.len()).step_by(4) { rom_file.swap(i, i + 3);
\* rom_file.swap(i + 1, i + 2) }` from index i on
RECURSIVE swap4_loop(_, _)
swap4_loop(b, i) ==
    IF i >= b.len THEN [panic |-> FALSE, buf |-> b]
    ELSE IF i + 3 >= b.len THEN [panic |-> TRUE, buf |-> b]
    ELSE IF i >= Len(b.head) THEN [panic |-> (b.len - i) % 4 # 0, buf |-> b]
    ELSE swap4_loop(Swap(Swap(b, i, i + 3), i + 1, i + 2), i + 4)

\* byte_order with the transforms of the two swapped signatures exchanged
byte_order_exchanged(rom_file, header_word_be, base_address) ==
    CASE header_word_be = U32(\h8037, \h1240) ->
            [panic |-> FALSE, buf |-> rom_file, base |-> base_address]
      [] header_word_be = U32(\h3780, \h4012) ->
            LET r == swap4_loop(rom_file, 0) IN
            [panic |-> r.panic, buf |-> r.buf, base |-> base_address]
      [] header_word_be = U32(\h4012, \h3780) ->
            LET r == swap2_loop(rom_file, 0) IN
            [panic |-> r.panic, buf |-> r.buf, base |-> base_address]
      [] OTHER ->
            [panic |-> FALSE, buf |-> rom_file, base |-> ROM_BASE_ADDR_EMU]

\* byte_order that keeps the caller's base address for an unrecognised word
byte_order_keep_base(rom_file, header_word_be, base_address) ==
    CASE header_word_be = U32(\h8037, \h1240) ->
            [panic |-> FALSE, buf |-> rom_file, base |-> base_address]
      [] header_word_be = U32(\h3780, \h4012) ->
            LET r == swap2_loop(rom_file, 0) IN
            [panic |-> r.panic, buf |-> r.buf, base |-> base_address]
      [] header_word_be = U32(\h4012, \h3780) ->
            LET r == swap4_loop(rom_file, 0) IN
            [panic |-> r.panic, buf |-> r.buf, base |-> base_address]
      [] OTHER ->
            [panic |-> FALSE, buf |-> rom_file, base |-> base_address]

\* byte_order that sends a little-endian image as it is
byte_order_no_reversal(rom_file, header_word_be, base_address) ==
    CASE header_word_be = U32(\h8037, \h1240) ->
            [panic |-> FALSE, buf |-> rom_file, base |-> base_address]
      [] header_word_be = U32(\h3780, \h4012) ->
            LET r == swap2_loop(rom_file, 0) IN
            [panic |-> r.panic, buf |-> r.buf, base |-> base_address]
      [] header_word_be = U32(\h4012, \h3780) ->
            [panic |-> FALSE, buf |-> rom_file, base |-> base_address]
      [] OTHER ->
            [panic |-> FALSE, buf |-> rom_file, base |-> ROM_BASE_ADDR_EMU]

\* the `match header_word_be` of load_rom: the image and the base address
byte_order(rom_file, header_word_be, base_address) ==
    CASE header_word_be = U32(\h8037, \h1240) ->
            [panic |-> FALSE, buf |-> rom_file, base |-> base_address]
      [] header_word_be = U32(\h3780, \h4012) ->
            LET r == swap2_loop(rom_file, 0) IN
            [panic |-> r.panic, buf |-> r.buf, base |-> base_address]
      [] header_word_be = U32(\h4012, \h3780) ->
            LET r == swap4_loop(rom_file, 0) IN
            [panic |-> r.panic, buf |-> r.buf, base |-> base_address]
      [] OTHER ->
            [panic |-> FALSE, buf |-> rom_file, base |-> ROM_BASE_ADDR_EMU]

\* the `if let Some(st) = save_type` of load_rom; st and the region are the
\* enums' u8 values
save_patch(rom_file, save_type, rtc_region_type) ==
    IF ~save_type.some THEN [panic |-> FALSE, buf |-> rom_file]
    ELSE IF rom_file.len <= 63 THEN [panic |-> TRUE, buf |-> rom_file]
    ELSE LET region_type == IF rtc_region_type.some THEN rtc_region_type.v ELSE 0
             b1 == SetAt(rom_file, 60, 69)
             b2 == SetAt(b1, 61, 68)
             b3 == SetAt(b2, 63, BitOr(Shl8(save_type.v, 4), region_type)) IN
         [panic |-> FALSE, buf |-> b3]

\* Everdrive::load_rom up to its call of load_rom_force (ed_load_rom up to
\* its call of ed_load_rom_force): the image and base address passed on
load_rom_prepare(rom_file, base_address, save_type, rtc_region_type) ==
    IF rom_file.len < 4 THEN [panic |-> TRUE]
    ELSE LET header_word_be == from_be_bytes(At(rom_file, 0), At(rom_file, 1),
                                             At(rom_file, 2), At(rom_file, 3))
             base0 == IF base_address.some THEN base_address.v ELSE ROM_BASE_ADDR
             o == byte_order(rom_file, header_word_be, base0) IN
         IF o.panic THEN [panic |-> TRUE]
         ELSE LET p == save_patch(o.buf, save_type, rtc_region_type) IN
              IF p.panic THEN [panic |-> TRUE]
              ELSE [panic |-> FALSE, data |-> p.buf, base |-> o.base]

\* the fill value of load_rom_force
fill_val(data) == IF is_ed_bootloader(data) THEN U32(\hFFFF, \hFFFF) ELSE U32Zero

\* load_rom_force that also fills for an image of exactly CRC_AREA_SIZE bytes
load_rom_force_fill_le(s, data, base_address) ==
    LET s1 == IF data.len <= CRC_AREA_SIZE
              THEN rom_fill(s, base_address, as_u32(CRC_AREA_SIZE), fill_val(data))
              ELSE s IN
    IF IsErr(s1) THEN s1
    ELSE LET s2 == tx(s1, RomWrite(base_address, as_u32(data.len))) IN
         IF IsErr(s2) THEN s2 ELSE write(s2, data)

\* load_rom_force that drops the Result of rom_fill
load_rom_force_ignore_fill(s, data, base_address) ==
    LET s0 == IF data.len < CRC_AREA_SIZE
              THEN rom_fill(s, base_address, as_u32(CRC_AREA_SIZE), fill_val(data))
              ELSE s
        s1 == [s0 EXCEPT !.err = "Ok"]
        s2 == tx(s1, RomWrite(base_address, as_u32(data.len))) IN
    IF IsErr(s2) THEN s2 ELSE write(s2, data)

\* Everdrive::load_rom_force
load_rom_force(s, data, base_address) ==
    LET s1 == IF data.len < CRC_AREA_SIZE
              THEN rom_fill(s, base_address, as_u32(CRC_AREA_SIZE), fill_val(data))
              ELSE s IN
    IF IsErr(s1) THEN s1
    ELSE LET s2 == tx(s1, RomWrite(base_address, as_u32(data.len))) IN
         IF IsErr(s2) THEN s2 ELSE write(s2, data)

\* Everdrive::load_rom
load_rom(s, rom_file, base_address, save_type, rtc_region_type) ==
    LET p == load_rom_prepare(rom_file, base_address, save_type, rtc_region_type) IN
    IF p.panic THEN Fail(s, "panic") ELSE load_rom_force(s, p.data, p.base)

\* Everdrive::ed_load_rom_force (ed_rom_fill and ed_rom_write are rom_fill and
\* rom_write over ed_tx, which is tx)
ed_load_rom_force(s, data, base_address) ==
    LET s1 == IF data.len < CRC_AREA_SIZE
              THEN rom_fill(s, base_address, as_u32(CRC_AREA_SIZE), U32Zero)
              ELSE s IN
    IF IsErr(s1) THEN s1 ELSE rom_write(s1, base_address, data)

\* Everdrive::ed_load_rom
ed_load_rom(s, rom_file, base_address, save_type, rtc_region_type) ==
    LET p == load_rom_prepare(rom_file, base_address, save_type, rtc_region_type) IN
    IF p.panic THEN Fail(s, "panic") ELSE ed_load_rom_force(s, p.data, p.base)

\* ------------------------------------------------------------- UNF packets

UNF_MAGIC == U32(\h444d, \h4140)
UNF_FOOTER == U32(\h434d, \h5048)

UnfDataType == {"DataTypeText", "DataTypeBinary", "DataTypeHeader", "DataTypeScreenshot",
                "DataTypeHeartbeat", "DataTypeRdbPacket", "DataTypeUnknown"}

\* impl From<u8> for UnfDataType
UnfDataType_from(byte) ==
    CASE byte = 1 -> "DataTypeText"
      [] byte = 2 -> "DataTypeBinary"
      [] byte = 3 -> "DataTypeHeader"
      [] byte = 4 -> "DataTypeScreenshot"
      [] byte = 5 -> "DataTypeHeartbeat"
      [] byte = 6 -> "DataTypeRdbPacket"
      [] OTHER -> "DataTypeUnknown"

\* impl Into<u8> for UnfDataType
UnfDataType_into(data_type) ==
    CASE data_type = "DataTypeText" -> 1
      [] data_type = "DataTypeBinary" -> 2
      [] data_type = "DataTypeHeader" -> 3
      [] data_type = "DataTypeScreenshot" -> 4
      [] data_type = "DataTypeHeartbeat" -> 5
      [] data_type = "DataTypeRdbPacket" -> 6
      [] data_type = "DataTypeUnknown" -> 255

(***************************************************************************)
(* The backing buffer of a send packet is [len, head, tail]: its first     *)
(* Len(head) and its last Len(tail) bytes, with zeros between them (the    *)
(* vec![0; ..] that nothing has been copied into).                         *)
(***************************************************************************)
PktAt(b, i) ==
    IF i < Len(b.head) THEN b.head[i + 1]
    ELSE IF i >= b.len - Len(b.tail) THEN b.tail[i - (b.len - Len(b.tail)) + 1]
    ELSE 0

\* the value a call returns for Ok(())
NoValue == [t |-> "none"]

\* UnfSendPacket::new with no alignment byte
UnfSendPacket_new_unaligned(data_type, data_size) ==
    IF data_size > 16777215
    THEN [ok |-> FALSE, err |-> "InvalidInput"]
    ELSE [ok |-> TRUE,
          v |-> [t |-> "UnfSendPacket",
                 data_size |-> data_size,
                 backing |-> [len |-> data_size + 12,
                              head |-> to_be_bytes(UNF_MAGIC)
                                       \o <<UnfDataType_into(data_type),
                                             (data_size \div 65536) % 256,
                                             (data_size \div 256) % 256,
                                             data_size % 256>>,
                              tail |-> to_be_bytes(UNF_FOOTER)]]]

\* UnfSendPacket::new: Err(InvalidInput) or Ok(UnfSendPacket)
UnfSendPacket_new(data_type, data_size) ==
    IF data_size > 16777215
    THEN [ok |-> FALSE, err |-> "InvalidInput"]
    ELSE LET align_bytes == data_size % 2 IN
         [ok |-> TRUE,
          v |-> [t |-> "UnfSendPacket",
                 data_size |-> data_size,
                 backing |-> [len |-> data_size + 12 + align_bytes,
                              head |-> to_be_bytes(UNF_MAGIC)
                                       \o <<UnfDataType_into(data_type),
                                             (data_size \div 65536) % 256,
                                             (data_size \div 256) % 256,
                                             data_size % 256>>,
                              tail |-> [k \in 1..align_bytes |-> 255]
                                       \o to_be_bytes(UNF_FOOTER)]]]

\* the backing buffer b with byte i set to v, every byte written out
PktSet(b, i, v) ==
    [len |-> b.len,
     head |-> [k \in 1..b.len |-> IF k = i + 1 THEN v ELSE PktAt(b, k - 1)],
     tail |-> <<>>]

\* the bytes of the backing buffer b, as they go over the wire
Flatten(b) == [k \in 1..b.len |-> PktAt(b, k - 1)]

\* a get_data that hands out the whole backing buffer
get_data_whole(p) == [lo |-> 0, hi |-> p.backing.len]

\* UnfSendPacket::get_data: the slice backing[lo..hi] it borrows mutably
get_data(p) == [lo |-> 8, hi |-> 8 + p.data_size]

\* `packet.get_data()[i] = v`: an index outside the slice panics, one inside
\* it writes the byte lo + i of the backing buffer
view_write(p, i, v) ==
    LET view == get_data(p) IN
    IF view.lo + i >= view.hi
    THEN [ok |-> FALSE, err |-> "panic"]
    ELSE [ok |-> TRUE, v |-> [p EXCEPT !.backing = PktSet(@, view.lo + i, v)]]

\* Everdrive::write_all, Everdrive::read_exact and Everdrive::read_word_be,
\* which unf.rs calls: the port's write_all and read_exact, and a read of 4
\* bytes taken as a big-endian word
write_all(s, b) == port_write_all(s, b)
read_exact(s, n) == port_read_exact(s, n)
read_word_be(s) == port_read_exact(s, 4)

\* the bytes the last read of s delivered, and those of a read_word_be as the
\* word it returns
LastGot(s) == s.io[Len(s.io)].got
LastWord(s) == from_be_bytes(LastGot(s)[1], LastGot(s)[2], LastGot(s)[3], LastGot(s)[4])

\* Everdrive::unf_tx
unf_tx(s, packet) == write_all(s, packet.backing)

\* `dtype.try_into()` of unf_rx: UnfDataType has From<u8>, and the TryFrom
\* that try_into finds is the one every From gives, which returns Ok
try_into(dtype) == [ok |-> TRUE, v |-> UnfDataType_from(dtype)]

\* unf_rx that reads the magic and the header word before it checks the magic
unf_rx_header_first(s) ==
    LET s1 == read_word_be(s) IN
    IF IsErr(s1) THEN s1
    ELSE LET s2 == read_word_be(s1) IN
         IF IsErr(s2) THEN s2
         ELSE IF LastWord(s1) # UNF_MAGIC THEN Fail(s2, "InvalidData")
         ELSE LET header == LastWord(s2)
                  dsize == (header[1] % 256) * 65536 + header[2]
                  dtype == header[1] \div 256
                  datatype == try_into(dtype) IN
              IF ~datatype.ok THEN Fail(s2, "InvalidData")
              ELSE LET s3 == read_exact(s2, dsize) IN
                   IF IsErr(s3) THEN s3
                   ELSE LET data == LastGot(s3)
                            s4 == read_word_be(s3) IN
                        IF IsErr(s4) THEN s4
                        ELSE IF LastWord(s4) # UNF_FOOTER THEN Fail(s4, "InvalidData")
                        ELSE [s4 EXCEPT !.ret = [t |-> "UnfRecvPacket",
                                                 datatype |-> datatype.v,
                                                 data |-> data]]

\* unf_rx that reads the footer word and does not compare it
unf_rx_any_footer(s) ==
    LET s1 == read_word_be(s) IN
    IF IsErr(s1) THEN s1
    ELSE IF LastWord(s1) # UNF_MAGIC THEN Fail(s1, "InvalidData")
    ELSE LET s2 == read_word_be(s1) IN
         IF IsErr(s2) THEN s2
         ELSE LET header == LastWord(s2)
                  dsize == (header[1] % 256) * 65536 + header[2]
                  dtype == header[1] \div 256
                  datatype == try_into(dtype) IN
              IF ~datatype.ok THEN Fail(s2, "InvalidData")
              ELSE LET s3 == read_exact(s2, dsize) IN
                   IF IsErr(s3) THEN s3
                   ELSE LET data == LastGot(s3)
                            s4 == read_word_be(s3) IN
                        IF IsErr(s4) THEN s4
                        ELSE [s4 EXCEPT !.ret = [t |-> "UnfRecvPacket",
                                                 datatype |-> datatype.v,
                                                 data |-> data]]

\* unf_rx that reads the alignment byte of an odd-length payload before the
\* footer word
unf_rx_skip_pad(s) ==
    LET s1 == read_word_be(s) IN
    IF IsErr(s1) THEN s1
    ELSE IF LastWord(s1) # UNF_MAGIC THEN Fail(s1, "InvalidData")
    ELSE LET s2 == read_word_be(s1) IN
         IF IsErr(s2) THEN s2
         ELSE LET header == LastWord(s2)
                  dsize == (header[1] % 256) * 65536 + header[2]
                  dtype == header[1] \div 256
                  datatype == try_into(dtype) IN
              IF ~datatype.ok THEN Fail(s2, "InvalidData")
              ELSE LET s3 == read_exact(s2, dsize) IN
                   IF IsErr(s3) THEN s3
                   ELSE LET data == LastGot(s3)
                            sp == read_exact(s3, dsize % 2) IN
                        IF IsErr(sp) THEN sp
                        ELSE LET s4 == read_word_be(sp) IN
                             IF IsErr(s4) THEN s4
                             ELSE IF LastWord(s4) # UNF_FOOTER
                                  THEN Fail(s4, "InvalidData")
                             ELSE [s4 EXCEPT !.ret = [t |-> "UnfRecvPacket",
                                                      datatype |-> datatype.v,
                                                      data |-> data]]

\* Everdrive::unf_rx; map_err keeps the kind of the error
unf_rx(s) ==
    LET s1 == read_word_be(s) IN
    IF IsErr(s1) THEN s1
    ELSE IF LastWord(s1) # UNF_MAGIC THEN Fail(s1, "InvalidData")
    ELSE LET s2 == read_word_be(s1) IN
         IF IsErr(s2) THEN s2
         ELSE LET header == LastWord(s2)
                  dsize == (header[1] % 256) * 65536 + header[2]
                  dtype == header[1] \div 256
                  datatype == try_into(dtype) IN
              IF ~datatype.ok THEN Fail(s2, "InvalidData")
              ELSE LET s3 == read_exact(s2, dsize) IN
                   IF IsErr(s3) THEN s3
                   ELSE LET data == LastGot(s3)
                            s4 == read_word_be(s3) IN
                        IF IsErr(s4) THEN s4
                        ELSE IF LastWord(s4) # UNF_FOOTER THEN Fail(s4, "InvalidData")
                        ELSE [s4 EXCEPT !.ret = [t |-> "UnfRecvPacket",
                                                 datatype |-> datatype.v,
                                                 data |-> data]]

\* ------------------------------------------------------------------ inputs

\* the byte at index i of a test image, outside its first word and signature
Pat(i) == (i * 7 + 11) % 256

\* An image of len bytes: its first word, then Pat, with at 0x20 the
\* bootloader signature (sig = "boot"), the signature with its last byte
\* changed ("near") or Pat ("none"); bytes from 64 on are 0.
Image(len, word, sig) ==
    Buf(len, [k \in 1..Min(len, 64) |->
                IF k <= 4 THEN to_be_bytes(word)[k]
                ELSE IF sig # "none" /\ k >= 33 /\ k <= 52
                     THEN (IF sig = "near" /\ k = 52 THEN 82 ELSE ED_HEADER[k - 32])
                     ELSE Pat(k - 1)])

Z64 == U32(\h8037, \h1240)
V64 == U32(\h3780, \h4012)
N64 == U32(\h4012, \h3780)
Words == {Z64, V64, N64, U32Zero, U32(\h8037, \h1241)}

ImageLens == {0, 3, 4, 6, 33, 40, 64, 512, 513, 1024,
              CRC_AREA_SIZE - 512, CRC_AREA_SIZE, CRC_AREA_SIZE + 512}
\* images for load_rom_force: every length, with and without the signature
ForceImages == {Image(n, Z64, g) : n \in ImageLens, g \in {"none", "boot", "near"}}
\* images for load_rom: every first word, lengths that are and are not whole
\* pairs, words and blocks
RomImages ==
    {Image(n, w, "none") : n \in {3, 4, 6, 64, 512, 513, CRC_AREA_SIZE}, w \in Words}
    \cup {Image(512, w, "boot") : w \in {Z64, V64}}
\* images for load_rom with a save type: around the patched offsets
PatchImages == {Image(n, Z64, "none") : n \in {40, 64, 512}} \cup {Image(512, V64, "none")}
SmallImages == {Image(n, w, "none") : n \in {0, 512, 513, 1024}, w \in {Z64, U32Zero}}

Addrs == {ROM_BASE_ADDR, U32(\h8000, 4)}
BaseAddrs == {None, Some(ROM_BASE_ADDR), Some(U32(\h1040, 0))}
Sizes == {U32(0, 0), U32(0, 1), U32(0, 512), U32(0, 513), U32(1, 0), U32(16, 4096),
          U32(\hFFFF, \hFE00), U32(\hFFFF, \hFFFF)}
Vals == {U32Zero, U32(\hFFFF, \hFFFF), U32(\h0102, \h0304)}

\* EdSaveType and EdRtcRegionType, as their u8 values
EdSaveType == {16, 32, 48, 64, 80, 96}
EdRtcRegionType == {1, 2, 3}
SaveTypes == {None} \cup {Some(v) : v \in EdSaveType}
RtcRegions == {None} \cup {Some(v) : v \in EdRtcRegionType}

Commands ==
    {Test}
    \cup {RamRead(a, z) : a \in Addrs, z \in Sizes}
    \cup {RomRead(a, z) : a \in Addrs, z \in Sizes}
    \cup {RomWrite(a, z) : a \in Addrs, z \in Sizes}
    \cup {RomFill(a, z, v) : a \in Addrs, z \in Sizes, v \in Vals}
    \cup {FpgaInit(z) : z \in Sizes}
    \cup {AppStart(b) : b \in BOOLEAN}

\* a file name of n bytes
Name(n) == [k \in 1..n |-> 97 + (k % 26)]
FileNames == {None} \cup {Some(Name(n)) : n \in {0, 3, 255, 256, 300}}

\* what the device sends while a call that reads is being made
Zeros(n) == [k \in 1..n |-> 0]
Frame(prefix, rest) == prefix \o rest
AckR == Frame(<<99, 109, 100, 114>>, Zeros(12))
Block512 == [k \in 1..512 |-> (k * 5) % 256]
DevInputs ==
    { <<>>,
      AckR,
      Frame(<<99, 109, 100, 114>>, <<0, 1, 0, 0, 9, 9, 9, 9, 9, 9, 9, 255>>),
      Frame(<<99, 109, 100, 107>>, Zeros(12)),
      Frame(<<99, 109, 101, 114>>, Zeros(12)),
      SubSeq(AckR, 1, 15),
      AckR \o <<7>>,
      AckR \o AckR,
      Block512,
      Block512 \o AckR }

\* payload sizes for UnfSendPacket::new, around 0x00FFFFFF and of both parities
UnfSizes == {0, 1, 4, 5, 255, 256, 65537, 16777215, 16777216, 16777217}

\* packets a caller has built and hands to unf_tx
Packets == {UnfSendPacket_new(d, n).v : d \in {"DataTypeText", "DataTypeUnknown"},
                                        n \in {0, 4, 5}}

\* what the device sends while unf_rx is being made: a magic, a header word
\* of type code and length, a payload and what follows it
Payload(n) == [k \in 1..n |-> (k * 3 + 1) % 256]
UnfFrame(magic, code, len, payload, rest) ==
    magic \o <<code, (len \div 65536) % 256, (len \div 256) % 256, len % 256>>
          \o payload \o rest
UnfInputs ==
    LET M == to_be_bytes(UNF_MAGIC)
        F == to_be_bytes(UNF_FOOTER) IN
    { <<>>, M, UnfFrame(M, 1, 5, Payload(3), <<>>) }
    \cup {UnfFrame(M, c, 5, Payload(5), F) : c \in {0, 1, 2, 3, 4, 5, 6, 7, 255}}
    \cup {UnfFrame(M, 1, n, Payload(n), F) : n \in {0, 4, 261}}
    \cup { UnfFrame(<<68, 77, 65, 65>>, 1, 5, Payload(5), F),
           UnfFrame(M, 1, 5, Payload(5), <<67, 77, 80, 73>>),
           UnfFrame(M, 1, 5, Payload(5), <<255>> \o F),
           UnfFrame(M, 2, 4, Payload(4), F \o <<9>>) }

\* the port call on which the transport fails (0: none)
Fails == 0..4

\* unf_rx runs: every device input with a transport that works, and a whole
\* packet with the transport failing on each of the four reads
UnfRuns ==
    {<<dev, 0>> : dev \in UnfInputs}
    \cup {<<UnfFrame(to_be_bytes(UNF_MAGIC), 1, 5, Payload(5), to_be_bytes(UNF_FOOTER)), f>> :
              f \in Fails}

\* the calls a caller can make
Requests(sess) ==
    {[op |-> "unf_new", data_type |-> d, data_size |-> n] : d \in UnfDataType, n \in UnfSizes}
    \cup
    IF sess = "none" THEN {[op |-> "new"]}
    ELSE IF sess = "failed" THEN {}
    ELSE {[op |-> "status"]}
         \cup {[op |-> "unf_rx"]}
         \cup {[op |-> "unf_tx", packet |-> p] : p \in Packets}
         \cup {[op |-> "rx", resp |-> r] : r \in {114, 107}}
         \cup {[op |-> "tx", cmd |-> c] : c \in Commands}
         \cup {[op |-> "rom_fill", addr |-> a, size |-> z, val |-> v] :
                  a \in Addrs, z \in Sizes, v \in Vals}
         \cup {[op |-> o, addr |-> a, n |-> n] :
                  o \in {"rom_read", "ram_read"}, a \in Addrs, n \in {0, 100, 512}}
         \cup {[op |-> "rom_write", addr |-> a, data |-> d] : a \in Addrs, d \in SmallImages}
         \cup {[op |-> "fpga_init", size |-> z, data |-> d] :
                  z \in {U32(0, 0), U32(0, 512), U32(0, 513), U32(0, 1024)}, d \in SmallImages}
         \cup {[op |-> "app_start", file_name |-> f] : f \in FileNames}
         \cup {[op |-> "load_rom_force", data |-> d, base_address |-> a] :
                  d \in ForceImages, a \in Addrs}
         \cup {[op |-> "ed_load_rom_force", data |-> d, base_address |-> ROM_BASE_ADDR] :
                  d \in ForceImages}
         \cup {[op |-> "load_rom", rom_file |-> d, base_address |-> a,
                save_type |-> None, rtc_region_type |-> None] :
                  d \in RomImages, a \in BaseAddrs}
         \cup {[op |-> "ed_load_rom", rom_file |-> d, base_address |-> None,
                save_type |-> None, rtc_region_type |-> None] : d \in RomImages}
         \cup {[op |-> "load_rom", rom_file |-> d, base_address |-> None,
                save_type |-> st, rtc_region_type |-> rt] :
                  d \in PatchImages, st \in SaveTypes \ {None}, rt \in RtcRegions}
         \cup {[op |-> "ed_load_rom", rom_file |-> Image(512, Z64, "none"),
                base_address |-> None, save_type |-> st, rtc_region_type |-> rt] :
                  st \in SaveTypes \ {None}, rt \in RtcRegions}

\* ------------------------------------------------------------------ actions

\* the port as a call finds it: dev is what the device sends during the call
Start(dev, fail) ==
    [io |-> <<>>, rx |-> rxbuf \o dev, err |-> "Ok", fail |-> fail, inq |-> rxbuf \o dev,
     ret |-> NoValue]

\* the operations whose first port call is the write of a command
CommandOps == {"new", "status", "tx", "rom_fill", "rom_read", "ram_read", "rom_write",
               "fpga_init", "app_start", "load_rom", "load_rom_force",
               "ed_load_rom", "ed_load_rom_force"}

\* port call k of log l went through and delivered (a read) n bytes
Took(l, k, n) == Len(l) >= k /\ l[k].ok /\ (l[k].k = "r" => Len(l[k].got) = n)

\* The call r, whose port calls were l, leaves response bytes owed: it wrote
\* a command that the device answers (Test and FpgaInit's data by a 16-byte
\* ack, RomRead and RamRead by the bytes asked for) and did not read the
\* whole answer.
LeavesOwed(r, l) ==
    CASE r.op \in {"new", "status"} -> Took(l, 1, 16) /\ ~Took(l, 2, 16)
      [] r.op \in {"rom_read", "ram_read"} ->
            Took(l, 1, 16) /\ r.n > 0 /\ ~Took(l, 2, r.n)
      [] r.op = "fpga_init" -> Took(l, 2, r.data.len) /\ ~Took(l, 3, 16)
      [] r.op = "tx" ->
            /\ Took(l, 1, 16)
            /\ \/ r.cmd.t = "Test"
               \/ r.cmd.t \in {"RomRead", "RamRead"} /\ r.cmd.size # U32Zero
      [] OTHER -> FALSE

\* the caller holds no packet
NoPacket == pkt = NoValue /\ built = NoValue /\ nwrites = 0

\* the two execution contexts, and a session used by one caller only
Ctx == {1, 2}
Idle == [op |-> "idle"]
OneContext ==
    /\ mutex = TRUE
    /\ holder = 0
    /\ cpc = [c \in Ctx |-> Idle]
    /\ who = <<>>

\* the call returns, leaving the port as s
Finish(s) ==
    /\ io' = s.io
    /\ rxbuf' = s.rx
    /\ inq' = s.inq
    /\ res' = s.err
    /\ ret' = IF IsErr(s) THEN NoValue ELSE s.ret
    /\ piped' = (pending /\ req.op \in CommandOps /\ Took(s.io, 1, 16))
    /\ pending' = \/ LeavesOwed(req, s.io)
                  \/ pending /\ \A k \in 1..Len(s.io) :
                                    s.io[k].k = "r" => s.io[k].got = <<>>
    /\ pc' = "done"
    /\ UNCHANGED <<req, ncalls, pktvars, concvars>>

Init ==
    /\ session = "none"
    /\ pc = "idle"
    /\ req = [op |-> "none"]
    /\ io = <<>>
    /\ res = "none"
    /\ ret = NoValue
    /\ rxbuf = <<>>
    /\ inq = <<>>
    /\ pending = FALSE
    /\ piped = FALSE
    /\ ncalls = 0
    /\ NoPacket
    /\ OneContext

\* the caller makes a call
Call ==
    /\ pc = "idle"
    /\ ncalls < MaxCalls
    /\ \E r \in Requests(session) : req' = r
    /\ pc' = "call"
    /\ UNCHANGED <<session, io, res, ret, rxbuf, inq, pending, piped, ncalls,
                   pktvars, concvars>>

\* the caller has taken the call's result; the port stays as the call left it
Return ==
    /\ pc = "done"
    /\ pc' = "idle"
    /\ ncalls' = ncalls + 1
    /\ req' = [op |-> "none"]
    /\ io' = <<>>
    /\ res' = "none"
    /\ ret' = NoValue
    /\ inq' = <<>>
    /\ piped' = FALSE
    /\ UNCHANGED <<session, rxbuf, pending, pktvars, concvars>>

\* Everdrive::new: find and open the port, then the status handshake
Run_new ==
    /\ pc = "call" /\ req.op = "new"
    /\ \E port \in {"Ok", "NotFound", "OpenFailed"}, dev \in DevInputs, fail \in Fails :
          IF port # "Ok"
          THEN /\ Finish(Fail(Start(<<>>, 0), port))
               /\ session' = "failed"
          ELSE LET s == status(Start(dev, fail)) IN
               /\ Finish(s)
               /\ session' = IF IsErr(s) THEN "failed" ELSE "open"

Run_status ==
    /\ pc = "call" /\ req.op = "status"
    /\ \E dev \in DevInputs, fail \in Fails : Finish(status(Start(dev, fail)))
    /\ UNCHANGED session

Run_tx ==
    /\ pc = "call" /\ req.op = "tx"
    /\ \E fail \in Fails : Finish(tx(Start(<<>>, fail), req.cmd))
    /\ UNCHANGED session

Run_rx ==
    /\ pc = "call" /\ req.op = "rx"
    /\ \E dev \in DevInputs, fail \in Fails : Finish(rx(Start(dev, fail), req.resp))
    /\ UNCHANGED session

Run_rom_fill ==
    /\ pc = "call" /\ req.op = "rom_fill"
    /\ \E fail \in Fails : Finish(rom_fill(Start(<<>>, fail), req.addr, req.size, req.val))
    /\ UNCHANGED session

Run_rom_read ==
    /\ pc = "call" /\ req.op = "rom_read"
    /\ \E dev \in DevInputs, fail \in Fails :
          Finish(rom_read(Start(dev, fail), req.addr, req.n))
    /\ UNCHANGED session

Run_ram_read ==
    /\ pc = "call" /\ req.op = "ram_read"
    /\ \E dev \in DevInputs, fail \in Fails :
          Finish(ram_read(Start(dev, fail), req.addr, req.n))
    /\ UNCHANGED session

Run_rom_write ==
    /\ pc = "call" /\ req.op = "rom_write"
    /\ \E fail \in Fails : Finish(rom_write(Start(<<>>, fail), req.addr, req.data))
    /\ UNCHANGED session

Run_fpga_init ==
    /\ pc = "call" /\ req.op = "fpga_init"
    /\ \E dev \in DevInputs, fail \in Fails :
          Finish(fpga_init(Start(dev, fail), req.size, req.data))
    /\ UNCHANGED session

Run_app_start ==
    /\ pc = "call" /\ req.op = "app_start"
    /\ \E fail \in Fails : Finish(app_start(Start(<<>>, fail), req.file_name))
    /\ UNCHANGED session

Run_load_rom ==
    /\ pc = "call" /\ req.op = "load_rom"
    /\ \E fail \in Fails :
          Finish(load_rom(Start(<<>>, fail), req.rom_file, req.base_address,
                          req.save_type, req.rtc_region_type))
    /\ UNCHANGED session

Run_load_rom_force ==
    /\ pc = "call" /\ req.op = "load_rom_force"
    /\ \E fail \in Fails :
          Finish(load_rom_force(Start(<<>>, fail), req.data, req.base_address))
    /\ UNCHANGED session

Run_ed_load_rom ==
    /\ pc = "call" /\ req.op = "ed_load_rom"
    /\ \E fail \in Fails :
          Finish(ed_load_rom(Start(<<>>, fail), req.rom_file, req.base_address,
                             req.save_type, req.rtc_region_type))
    /\ UNCHANGED session

Run_ed_load_rom_force ==
    /\ pc = "call" /\ req.op = "ed_load_rom_force"
    /\ \E fail \in Fails :
          Finish(ed_load_rom_force(Start(<<>>, fail), req.data, req.base_address))
    /\ UNCHANGED session

\* UnfSendPacket::new: an associated function, it needs no session
Run_unf_new ==
    /\ pc = "call" /\ req.op = "unf_new"
    /\ LET p == UnfSendPacket_new(req.data_type, req.data_size)
           s == Start(<<>>, 0) IN
       Finish(IF p.ok THEN [s EXCEPT !.ret = p.v] ELSE Fail(s, p.err))
    /\ UNCHANGED session

Run_unf_tx ==
    /\ pc = "call" /\ req.op = "unf_tx"
    /\ \E fail \in Fails : Finish(unf_tx(Start(<<>>, fail), req.packet))
    /\ UNCHANGED session

Run_unf_rx ==
    /\ pc = "call" /\ req.op = "unf_rx"
    /\ \E run \in UnfRuns : Finish(unf_rx(Start(run[1], run[2])))
    /\ UNCHANGED session

Next ==
    \/ Call
    \/ Return
    \/ Run_new
    \/ Run_status
    \/ Run_tx
    \/ Run_rx
    \/ Run_rom_fill
    \/ Run_rom_read
    \/ Run_ram_read
    \/ Run_rom_write
    \/ Run_fpga_init
    \/ Run_app_start
    \/ Run_load_rom
    \/ Run_load_rom_force
    \/ Run_ed_load_rom
    \/ Run_ed_load_rom_force
    \/ Run_unf_new
    \/ Run_unf_tx
    \/ Run_unf_rx

Spec == Init /\ [][Next]_vars

\* A session that Everdrive::new has returned: the calls made on it, one
\* after the other.
InitOpen ==
    /\ session = "open"
    /\ pc = "idle"
    /\ req = [op |-> "none"]
    /\ io = <<>>
    /\ res = "none"
    /\ ret = NoValue
    /\ rxbuf = <<>>
    /\ inq = <<>>
    /\ pending = FALSE
    /\ piped = FALSE
    /\ ncalls = 0
    /\ NoPacket
    /\ OneContext

NextOpen ==
    \/ Call
    \/ Return
    \/ Run_status
    \/ Run_tx
    \/ Run_rx
    \/ Run_rom_fill
    \/ Run_rom_read
    \/ Run_ram_read
    \/ Run_rom_write
    \/ Run_fpga_init
    \/ Run_app_start
    \/ Run_load_rom
    \/ Run_load_rom_force
    \/ Run_ed_load_rom
    \/ Run_ed_load_rom_force
    \/ Run_unf_new
    \/ Run_unf_tx
    \/ Run_unf_rx

SpecOpen == InitOpen /\ [][NextOpen]_vars

(***************************************************************************)
(* A caller that builds one UnfSendPacket, fills its payload through the   *)
(* get_data view, sends it with unf_tx and, the far end playing the bytes  *)
(* back, receives them with unf_rx.                                        *)
(***************************************************************************)
PktTypes == {"DataTypeText", "DataTypeRdbPacket", "DataTypeUnknown"}
PktSizes == {0, 1, 4, 5}
PktVals == {7, 255}

InitPkt ==
    /\ session = "open"
    /\ pc = "idle"
    /\ req = [op |-> "none"]
    /\ io = <<>>
    /\ res = "none"
    /\ ret = NoValue
    /\ rxbuf = <<>>
    /\ inq = <<>>
    /\ pending = FALSE
    /\ piped = FALSE
    /\ ncalls = 0
    /\ NoPacket
    /\ OneContext

\* `let mut packet = UnfSendPacket::new(data_type, data_size)?`
Pkt_new ==
    /\ pc = "idle" /\ pkt = NoValue
    /\ \E data_type \in PktTypes, data_size \in PktSizes :
          LET p == UnfSendPacket_new(data_type, data_size) IN
          /\ p.ok
          /\ pkt' = p.v
          /\ built' = p.v
    /\ UNCHANGED <<session, pc, req, io, res, ret, rxbuf, inq, pending, piped, ncalls,
                   nwrites, concvars>>

\* `packet.get_data()[i] = v`
Pkt_write ==
    /\ pc = "idle" /\ pkt # NoValue
    /\ nwrites < MaxWrites
    /\ \E i \in 0..pkt.data_size, v \in PktVals :
          LET w == view_write(pkt, i, v) IN
          IF w.ok
          THEN /\ pkt' = w.v
               /\ UNCHANGED <<pc, req, res>>
          ELSE /\ pc' = "done"
               /\ req' = [op |-> "get_data"]
               /\ res' = w.err
               /\ UNCHANGED pkt
    /\ nwrites' = nwrites + 1
    /\ UNCHANGED <<session, io, ret, rxbuf, inq, pending, piped, ncalls, built, concvars>>

\* `ed.unf_tx(&packet)` is called
Pkt_tx ==
    /\ pc = "idle" /\ pkt # NoValue
    /\ ncalls < MaxCalls
    /\ req' = [op |-> "unf_tx", packet |-> pkt]
    /\ pc' = "call"
    /\ UNCHANGED <<session, io, res, ret, rxbuf, inq, pending, piped, ncalls,
                   pktvars, concvars>>

\* unf_tx has returned Ok: the far end plays the bytes it was sent back
Pkt_echo ==
    /\ pc = "done" /\ req.op = "unf_tx" /\ res = "Ok"
    /\ rxbuf' = rxbuf \o Flatten(io[1].buf)
    /\ pc' = "idle"
    /\ ncalls' = ncalls + 1
    /\ req' = [op |-> "none"]
    /\ io' = <<>>
    /\ res' = "none"
    /\ ret' = NoValue
    /\ inq' = <<>>
    /\ piped' = FALSE
    /\ UNCHANGED <<session, pending, pktvars, concvars>>

\* `ed.unf_rx()` is called
Pkt_rx ==
    /\ pc = "idle" /\ pkt # NoValue
    /\ ncalls < MaxCalls
    /\ req' = [op |-> "unf_rx"]
    /\ pc' = "call"
    /\ UNCHANGED <<session, io, res, ret, rxbuf, inq, pending, piped, ncalls,
                   pktvars, concvars>>

\* unf_rx on the bytes played back, the far end sending nothing more
Run_unf_rx_echo ==
    /\ pc = "call" /\ req.op = "unf_rx"
    /\ Finish(unf_rx(Start(<<>>, 0)))
    /\ UNCHANGED session

NextPkt ==
    \/ Pkt_new
    \/ Pkt_write
    \/ Pkt_tx
    \/ Run_unf_tx
    \/ Pkt_echo
    \/ Pkt_rx
    \/ Run_unf_rx_echo
    \/ Return

SpecPkt == InitPkt /\ [][NextPkt]_vars

(***************************************************************************)
(* Two execution contexts on one session.  An operation is the sequence of *)
(* port calls its method makes; a context makes them one at a time, so     *)
(* that the other context can run in between.  Every method of Everdrive   *)
(* takes `&mut self`: with mutex a context that is inside an operation     *)
(* keeps the session to itself until the operation returns; without it a   *)
(* context takes the session for one port call at a time (tx, write, rx    *)
(* and read are pub).                                                      *)
(***************************************************************************)
ConcOps ==
    {[op |-> "status"]}
      \cup {[op |-> "rom_write", addr |-> a, data |-> Buf(512, <<165, c>>)] :
               a \in Addrs, c \in Ctx}

\* the number of port calls of operation o when none of them fails
Steps(o) == 2

\* port call k of operation o: rom_write is tx(RomWrite) then write(data),
\* status is tx(Test) then rx(b'r')
StepOf(s, o, k) ==
    CASE o.op = "rom_write" /\ k = 1 -> tx(s, RomWrite(o.addr, as_u32(o.data.len)))
      [] o.op = "rom_write" /\ k = 2 -> write(s, o.data)
      [] o.op = "status" /\ k = 1 -> tx(s, Test)
      [] o.op = "status" /\ k = 2 -> rx(s, 114)

\* what the device may send on port call k of o: the ack of a Test command,
\* or nothing
Answers(o, k) == IF o.op = "status" /\ k = 1 THEN {<<>>, AckR} ELSE {<<>>}

\* a session that every context enters whenever it likes
Free_always(c) == TRUE

\* `&mut self`: context c may enter an operation when no other context is
\* inside one
Free(c) == holder \in {0, c}

InitConc ==
    /\ session = "open"
    /\ pc = "idle"
    /\ req = [op |-> "none"]
    /\ io = <<>>
    /\ res = "none"
    /\ ret = NoValue
    /\ rxbuf = <<>>
    /\ inq = <<>>
    /\ pending = FALSE
    /\ piped = FALSE
    /\ ncalls = 0
    /\ NoPacket
    /\ mutex \in BOOLEAN
    /\ holder = 0
    /\ cpc = [c \in Ctx |-> Idle]
    /\ who = <<>>

\* context c calls an operation
Conc_call(c) ==
    /\ cpc[c] = Idle
    /\ ncalls < MaxCalls
    /\ mutex => Free(c)
    /\ \E o \in ConcOps : cpc' = [cpc EXCEPT ![c] = [op |-> o.op, o |-> o, k |-> 1]]
    /\ holder' = IF mutex THEN c ELSE holder
    /\ ncalls' = ncalls + 1
    /\ UNCHANGED <<session, pc, req, io, res, ret, rxbuf, inq, pending, piped,
                   pktvars, mutex, who>>

\* context c makes the next port call of its operation; the operation
\* returns after its last port call or, by `?`, after one that failed
Conc_step(c) ==
    /\ cpc[c] # Idle
    /\ \E dev \in Answers(cpc[c].o, cpc[c].k) :
          LET s == StepOf([io |-> io, rx |-> rxbuf, err |-> "Ok", fail |-> 0,
                           inq |-> inq, ret |-> NoValue], cpc[c].o, cpc[c].k)
              last == IsErr(s) \/ cpc[c].k = Steps(cpc[c].o) IN
          /\ io' = s.io
          /\ rxbuf' = s.rx \o dev
          /\ who' = IF Len(s.io) > Len(io)
                     THEN Append(who, [c |-> c, op |-> cpc[c].op, k |-> cpc[c].k,
                                       last |-> last, err |-> s.err,
                                       ans |-> dev # <<>>])
                     ELSE who
          /\ cpc' = [cpc EXCEPT ![c] = IF last THEN Idle ELSE [@ EXCEPT !.k = @ + 1]]
          /\ holder' = IF mutex /\ last THEN 0 ELSE holder
    /\ UNCHANGED <<session, pc, req, res, ret, inq, pending, piped, ncalls,
                   pktvars, mutex>>

NextConc ==
    \/ \E c \in Ctx : Conc_call(c)
    \/ \E c \in Ctx : Conc_step(c)

SpecConc == InitConc /\ [][NextConc]_vars

\* ------------------------------------------------------------- properties

\* the n bytes of buffer b from index i
BytesAt(b, i, n) == [k \in 1..n |-> At(b, i + k - 1)]

\* the call of one of ops has returned
Done(ops) == pc = "done" /\ req.op \in ops

\* the port calls of a whole load_rom_force on an image of n bytes
LoadIoLen(n) == IF n < CRC_AREA_SIZE THEN 3 ELSE 2

\* the image a load_rom call has sent, once all its port calls are made
SentImage == io[Len(io)].buf

\* the size field of a command, as the caller gave it
C1_SizeField(c) == IF c.t \in {"Test", "AppStart"} THEN <<0, 0>> ELSE c.size
\* C1: tx of a command whose size field is not a multiple of 512 returns
\* InvalidInput and writes nothing; for a size that is a multiple of 512 (up
\* to 0xFFFFFFFF) the command is encoded and written, and bytes 8..12 of it
\* are size/512 in big-endian order.
C1_SizeInBlocks ==
    Done({"tx"}) =>
        LET size == C1_SizeField(req.cmd) IN
        IF size[2] % 512 # 0
        THEN res = "InvalidInput" /\ io = <<>>
        ELSE /\ res # "InvalidInput"
             /\ Len(io) = 1
             /\ io[1].k = "w"
             /\ io[1].buf.len = 16
             /\ At(io[1].buf, 8) = 0
             /\ At(io[1].buf, 9) * 65536 + At(io[1].buf, 10) * 256 + At(io[1].buf, 11)
                    = size[1] * 128 + size[2] \div 512
             /\ (io[1].ok <=> res = "Ok")
C1_Witness ==
    /\ Done({"tx"})
    /\ req.cmd.t = "RomFill"
    /\ req.cmd.size = <<65535, 65024>>
    /\ res = "Ok"
    /\ BytesAt(io[1].buf, 8, 4) = <<0, 127, 255, 255>>

\* the letter, address and argument of a command, as the wire format lists them
C2_Letter(c) ==
    CASE c.t = "Test" -> 116 [] c.t = "RamRead" -> 114 [] c.t = "RomRead" -> 82
      [] c.t = "RomWrite" -> 87 [] c.t = "RomFill" -> 99 [] c.t = "FpgaInit" -> 102
      [] c.t = "AppStart" -> 115
C2_Addr(c) == IF c.t \in {"Test", "FpgaInit", "AppStart"} THEN <<0, 0>> ELSE c.addr
C2_Arg(c) ==
    CASE c.t = "RomFill" -> c.arg
      [] c.t = "AppStart" -> (IF c.save_path THEN <<0, 1>> ELSE <<0, 0>>)
      [] OTHER -> <<0, 0>>
\* C2: an encoded command is 16 bytes: "cmd", the letter of its variant, the
\* big-endian address (0 for Test, FpgaInit, AppStart), the size, and the
\* big-endian argument (RomFill's value, AppStart's flag as 1 or 0, else 0).
C2_Layout ==
    (Done({"tx"}) /\ io # <<>>) =>
        LET b == io[1].buf IN
        /\ b.len = 16
        /\ Len(b.head) <= 16
        /\ BytesAt(b, 0, 3) = <<99, 109, 100>>
        /\ At(b, 3) = C2_Letter(req.cmd)
        /\ BytesAt(b, 4, 4) = to_be_bytes(C2_Addr(req.cmd))
        /\ BytesAt(b, 12, 4) = to_be_bytes(C2_Arg(req.cmd))
C2_Witness ==
    /\ Done({"tx"})
    /\ req.cmd.t = "RomRead"
    /\ req.cmd.addr = <<32768, 4>>
    /\ res = "Ok"
    /\ BytesAt(io[1].buf, 0, 8) = <<99, 109, 100, 82, 128, 0, 0, 4>>

\* the index of the input byte that a transformed image holds at index i
C3_Source(w, i) ==
    CASE w = <<55, 128, 64, 18>> -> (IF i % 2 = 0 THEN i + 1 ELSE i - 1)
      [] w = <<64, 18, 55, 128>> -> 4 * (i \div 4) + (3 - (i % 4))
      [] OTHER -> i
\* C3: the image load_rom sends, with no save_type, is the input with every
\* byte pair swapped when its first word is 0x37804012, with every 4-byte
\* word reversed when it is 0x40123780, and the input unchanged otherwise.
C3_Transform ==
    (/\ Done({"load_rom", "ed_load_rom"})
     /\ ~req.save_type.some
     /\ Len(io) = LoadIoLen(req.rom_file.len)) =>
        LET rom == req.rom_file
            w == BytesAt(rom, 0, 4) IN
        /\ SentImage.len = rom.len
        /\ Len(SentImage.head) <= rom.len
        /\ \A i \in 0..(Min(rom.len, Max(Len(rom.head), Len(SentImage.head)) + 8) - 1) :
              At(SentImage, i) = At(rom, C3_Source(w, i))
C3_Witness ==
    /\ Done({"load_rom"})
    /\ ~req.save_type.some
    /\ BytesAt(req.rom_file, 0, 8) = <<55, 128, 64, 18, 39, 46, 53, 60>>
    /\ res = "Ok"
    /\ Len(io) = 3
    /\ BytesAt(SentImage, 0, 8) = <<128, 55, 18, 64, 46, 39, 60, 53>>

\* the address bytes the commands of the load_rom call should carry
C4_Expected ==
    IF BytesAt(req.rom_file, 0, 4)
          \in {<<128, 55, 18, 64>>, <<55, 128, 64, 18>>, <<64, 18, 55, 128>>}
    THEN (IF req.base_address.some THEN to_be_bytes(req.base_address.v) ELSE <<16, 0, 0, 0>>)
    ELSE <<16, 32, 0, 0>>
\* C4: the address in the fill and write commands of load_rom is the caller's
\* address, or 0x10000000 when there is none, when the image's first word is
\* 0x80371240, 0x37804012 or 0x40123780; for any other first word it is
\* 0x10200000, whatever the caller gave.
C4_BaseAddress ==
    (Done({"load_rom", "ed_load_rom"}) /\ io # <<>>) =>
        \A k \in 1..Min(Len(io), LoadIoLen(req.rom_file.len) - 1) :
            /\ io[k].k = "w"
            /\ io[k].buf.len = 16
            /\ At(io[k].buf, 3) \in {99, 87}
            /\ BytesAt(io[k].buf, 4, 4) = C4_Expected
C4_Witness ==
    /\ Done({"load_rom"})
    /\ BytesAt(req.rom_file, 0, 4) = <<0, 0, 0, 0>>
    /\ req.base_address = Some(<<4160, 0>>)
    /\ res = "Ok"
    /\ BytesAt(io[1].buf, 3, 5) = <<99, 16, 32, 0, 0>>
    /\ BytesAt(io[2].buf, 3, 5) = <<87, 16, 32, 0, 0>>

\* C5 (as the claim states it): with a save_type, the image load_rom sends
\* has 0x45 at 0x3C, 0x44 at 0x3D, and at 0x3F the save type in the high
\* nibble with the RTC region code (0 when none) in the low nibble.
C5_SaveByte ==
    (/\ Done({"load_rom", "ed_load_rom"})
     /\ req.save_type.some
     /\ Len(io) = LoadIoLen(req.rom_file.len)) =>
        LET rtc == IF req.rtc_region_type.some THEN req.rtc_region_type.v ELSE 0 IN
        /\ At(SentImage, 60) = 69
        /\ At(SentImage, 61) = 68
        /\ At(SentImage, 63) \div 16 = req.save_type.v \div 16
        /\ At(SentImage, 63) % 16 = rtc

\* port call e is the write of the command letter(base, blocks * 512)
C6_IsCmd(e, letter, base, blocks) ==
    /\ e.k = "w"
    /\ e.buf.len = 16
    /\ BytesAt(e.buf, 0, 4) = <<99, 109, 100, letter>>
    /\ BytesAt(e.buf, 4, 4) = to_be_bytes(base)
    /\ BytesAt(e.buf, 8, 4) = <<0, blocks \div 65536, (blocks \div 256) % 256, blocks % 256>>
\* C6: load_rom_force on an image shorter than 0x101000 bytes writes first one
\* RomFill command for 0x101000 bytes at base and only then the RomWrite
\* command and the image; on a longer image it writes no RomFill command.  A
\* call that returns Ok has made all these writes, the RomWrite command and
\* the image last.
C6_FillThenWrite ==
    Done({"load_rom_force", "ed_load_rom_force"}) =>
        LET data == req.data
            fill == IF data.len < 1052672 THEN 1 ELSE 0 IN
        /\ Len(io) <= fill + 2
        /\ (fill = 1 /\ Len(io) >= 1) => C6_IsCmd(io[1], 99, req.base_address, 2056)
        /\ Len(io) >= fill + 1 =>
              C6_IsCmd(io[fill + 1], 87, req.base_address, data.len \div 512)
        /\ Len(io) = fill + 2 => (io[fill + 2].k = "w" /\ io[fill + 2].buf = data)
        /\ res = "Ok" => (Len(io) = fill + 2 /\ \A k \in 1..Len(io) : io[k].ok)
        /\ (data.len % 512 = 0 /\ \A k \in 1..Len(io) : io[k].ok) => res = "Ok"
C6_Witness ==
    /\ Done({"load_rom_force"})
    /\ req.data.len = 1052672
    /\ res = "Ok"
    /\ Len(io) = 2
    /\ At(io[1].buf, 3) = 87

\* data holds "EverDrive bootloader" at offset 0x20
C7_HasSignature(data) ==
    /\ data.len >= 52
    /\ BytesAt(data, 32, 20) = <<69, 118, 101, 114, 68, 114, 105, 118, 101, 32,
                                 98, 111, 111, 116, 108, 111, 97, 100, 101, 114>>
\* C7 (as the claim states it): for an image shorter than 0x101000 bytes, of
\* any length, the value of load_rom_force's RomFill command is 0xFFFFFFFF if
\* the image holds "EverDrive bootloader" at offset 0x20, and 0 otherwise.
C7_FillValue ==
    (Done({"load_rom_force"}) /\ req.data.len < 1052672 /\ io # <<>>) =>
        BytesAt(io[1].buf, 12, 4) =
            IF C7_HasSignature(req.data) THEN <<255, 255, 255, 255>> ELSE <<0, 0, 0, 0>>

\* C8: rx(letter) makes one read of 16 bytes and no write; when the read
\* delivers, 16 bytes have left the stream, and rx returns Ok if the first
\* four are 'c','m','d',letter and InvalidData if they are not, whatever
\* bytes 4..16 are.
C8_Rx ==
    Done({"rx"}) =>
        /\ Len(io) = 1
        /\ io[1].k = "r"
        /\ io[1].n = 16
        /\ io[1].ok =>
              /\ Len(io[1].got) = 16
              /\ inq = io[1].got \o rxbuf
              /\ res = (IF SubSeq(io[1].got, 1, 4) = <<99, 109, 100, req.resp>>
                        THEN "Ok" ELSE "InvalidData")
        /\ ~io[1].ok => res \in {"IoError", "TimedOut"}
C8_Witness ==
    /\ Done({"rx"})
    /\ req.resp = 107
    /\ io[1].ok
    /\ SubSeq(io[1].got, 1, 4) = <<99, 109, 100, 114>>
    /\ res = "InvalidData"
    /\ Len(inq) = Len(rxbuf) + 16

\* C9: status writes one 16-byte Test command and then reads one 16-byte
\* response, and returns Ok only if that response begins "cmdr";
\* Everdrive::new makes this handshake and gives a session only when it
\* returned Ok.
C9_Handshake ==
    Done({"status", "new"}) =>
        /\ Len(io) <= 2
        /\ Len(io) >= 1 =>
              /\ io[1].k = "w"
              /\ io[1].buf.len = 16
              /\ BytesAt(io[1].buf, 0, 16) = <<99, 109, 100, 116, 0, 0, 0, 0,
                                              0, 0, 0, 0, 0, 0, 0, 0>>
        /\ Len(io) = 2 => (io[1].ok /\ io[2].k = "r" /\ io[2].n = 16)
        /\ res = "Ok" <=>
              /\ Len(io) = 2
              /\ io[2].ok
              /\ SubSeq(io[2].got, 1, 4) = <<99, 109, 100, 114>>
        /\ (Len(io) = 2 /\ io[2].ok) =>
              (Len(io[2].got) = 16 /\ inq = io[2].got \o rxbuf)
        /\ req.op = "new" => (session = "open" <=> res = "Ok")
        /\ req.op = "status" => session = "open"
C9_Witness ==
    /\ Done({"new"})
    /\ session = "open"
    /\ res = "Ok"
    /\ Len(io) = 2
    /\ io[1].k = "w"
    /\ io[2].k = "r"

\* C10: rom_read and ram_read on a buffer of n bytes, n a multiple of 512,
\* write one 16-byte command ('R' for ROM, 'r' for RAM, the address, n/512)
\* and then make one read of n bytes; no 16-byte ack frame is read before or
\* after the payload.
C10_ReadPayload ==
    (Done({"rom_read", "ram_read"}) /\ req.n % 512 = 0) =>
        /\ Len(io) >= 1
        /\ Len(io) <= 2
        /\ io[1].k = "w"
        /\ io[1].buf.len = 16
        /\ BytesAt(io[1].buf, 0, 16) =
              <<99, 109, 100, IF req.op = "rom_read" THEN 82 ELSE 114>>
              \o to_be_bytes(req.addr)
              \o <<0, 0, (req.n \div 512) \div 256, (req.n \div 512) % 256>>
              \o <<0, 0, 0, 0>>
        /\ Len(io) = 2 <=> io[1].ok
        /\ Len(io) = 2 =>
              /\ io[2].k = "r"
              /\ io[2].n = req.n
              /\ io[2].ok => (/\ res = "Ok"
                              /\ Len(io[2].got) = req.n
                              /\ inq = io[2].got \o rxbuf)
        /\ res = "Ok" => (Len(io) = 2 /\ io[2].ok)
C10_Witness ==
    /\ Done({"rom_read"})
    /\ req.n = 512
    /\ res = "Ok"
    /\ Len(io) = 2
    /\ io[2].k = "r"
    /\ Len(io[2].got) = 512
    /\ Len(rxbuf) = 16

\* port call e is the write of the 16-byte command "cmd", letter, addr, blocks
\* (an integer) and arg, each in big-endian order
IsCommand(e, letter, addr, blocks, arg) ==
    /\ e.k = "w"
    /\ e.buf.len = 16
    /\ Len(e.buf.head) <= 16
    /\ BytesAt(e.buf, 0, 4) = <<99, 109, 100, letter>>
    /\ BytesAt(e.buf, 4, 4) = to_be_bytes(addr)
    /\ BytesAt(e.buf, 8, 4) = <<blocks \div 16777216, (blocks \div 65536) % 256,
                               (blocks \div 256) % 256, blocks % 256>>
    /\ BytesAt(e.buf, 12, 4) = to_be_bytes(arg)

\* C11: rom_write(addr, data) with len(data) a multiple of 512 writes the
\* 16-byte RomWrite command carrying addr and len(data)/512 and then, as the
\* next port call, data itself unchanged; it makes no read and no other
\* write, and returns Ok exactly when both writes went through.
C11_RomWrite ==
    (Done({"rom_write"}) /\ req.data.len % 512 = 0) =>
        /\ Len(io) >= 1
        /\ Len(io) <= 2
        /\ IsCommand(io[1], 87, req.addr, req.data.len \div 512, <<0, 0>>)
        /\ Len(io) = 2 <=> io[1].ok
        /\ Len(io) = 2 => io[2] = [k |-> "w", buf |-> req.data, ok |-> io[2].ok]
        /\ res = "Ok" <=> (Len(io) = 2 /\ io[2].ok)
        /\ rxbuf = inq
C11_Witness ==
    /\ Done({"rom_write"})
    /\ req.data.len = 1024
    /\ res = "Ok"
    /\ BytesAt(io[1].buf, 0, 4) = <<99, 109, 100, 87>>
    /\ BytesAt(io[1].buf, 8, 4) = <<0, 0, 0, 2>>
    /\ io[2].buf = req.data

\* C12: fpga_init writes the FpgaInit command, then writes the data, then
\* reads one 16-byte ack, in that order; once the ack is read it returns Ok
\* if the ack begins "cmdr" and InvalidData if not, whatever bytes 4..16 of
\* the ack are.
C12_FpgaInit ==
    (Done({"fpga_init"}) /\ req.size[2] % 512 = 0) =>
        /\ Len(io) >= 1
        /\ Len(io) <= 3
        /\ IsCommand(io[1], 102, <<0, 0>>, req.size[1] * 128 + req.size[2] \div 512, <<0, 0>>)
        /\ Len(io) >= 2 <=> io[1].ok
        /\ Len(io) >= 2 => io[2] = [k |-> "w", buf |-> req.data, ok |-> io[2].ok]
        /\ Len(io) = 3 <=> (Len(io) >= 2 /\ io[2].ok)
        /\ Len(io) = 3 => (io[3].k = "r" /\ io[3].n = 16)
        /\ (Len(io) = 3 /\ io[3].ok) =>
              res = (IF SubSeq(io[3].got, 1, 4) = <<99, 109, 100, 114>>
                     THEN "Ok" ELSE "InvalidData")
        /\ res = "Ok" => (Len(io) = 3 /\ io[3].ok)
C12_Witness ==
    /\ Done({"fpga_init"})
    /\ res = "Ok"
    /\ Len(io) = 3
    /\ SubSeq(io[3].got, 1, 4) = <<99, 109, 100, 114>>
    /\ io[3].got[6] = 1
    /\ io[3].got[16] = 255

\* C13: app_start with a name of 256 bytes or more returns InvalidInput and
\* makes no port call; with a shorter name it writes the AppStart command
\* with argument 1 and then one buffer of 256 bytes, the name followed by
\* zeros; with no name it writes only the AppStart command with argument 0.
\* It makes no read.
C13_AppStart ==
    Done({"app_start"}) =>
        LET f == req.file_name IN
        /\ rxbuf = inq
        /\ \A k \in 1..Len(io) : io[k].k = "w"
        /\ (f.some /\ Len(f.v) >= 256) => (res = "InvalidInput" /\ io = <<>>)
        /\ (f.some /\ Len(f.v) < 256) =>
              /\ Len(io) >= 1
              /\ Len(io) <= 2
              /\ IsCommand(io[1], 115, <<0, 0>>, 0, <<0, 1>>)
              /\ Len(io) = 2 <=> io[1].ok
              /\ Len(io) = 2 =>
                    /\ io[2].buf.len = 256
                    /\ Len(io[2].buf.head) <= 256
                    /\ \A i \in 0..255 :
                          At(io[2].buf, i) = IF i < Len(f.v) THEN f.v[i + 1] ELSE 0
              /\ res = "Ok" <=> (Len(io) = 2 /\ io[2].ok)
        /\ ~f.some =>
              /\ Len(io) = 1
              /\ IsCommand(io[1], 115, <<0, 0>>, 0, <<0, 0>>)
              /\ res = "Ok" <=> io[1].ok
C13_Witness ==
    /\ Done({"app_start"})
    /\ req.file_name.some
    /\ Len(req.file_name.v) = 255
    /\ res = "Ok"
    /\ Len(io) = 2
    /\ io[2].buf.len = 256
    /\ At(io[2].buf, 254) = req.file_name.v[255]
    /\ At(io[2].buf, 255) = 0

\* the wire byte of a packet type
C14_TypeByte(d) ==
    CASE d = "DataTypeText" -> 1 [] d = "DataTypeBinary" -> 2 [] d = "DataTypeHeader" -> 3
      [] d = "DataTypeScreenshot" -> 4 [] d = "DataTypeHeartbeat" -> 5
      [] d = "DataTypeRdbPacket" -> 6 [] d = "DataTypeUnknown" -> 255
\* C14: UnfSendPacket::new(type, n) returns InvalidInput if n > 0x00FFFFFF;
\* otherwise its buffer has 12 + n + (n mod 2) bytes: 44 4D 41 40, the type
\* byte, n in 3 big-endian bytes, n payload bytes, a byte 0xFF only when n is
\* odd, and 43 4D 50 48 as the last 4 bytes, which start at an even offset.
C14_Packet ==
    Done({"unf_new"}) =>
        LET n == req.data_size IN
        /\ io = <<>>
        /\ n > 16777215 => (res = "InvalidInput" /\ ret = NoValue)
        /\ n <= 16777215 =>
              /\ res = "Ok"
              /\ ret.data_size = n
              /\ LET b == ret.backing
                     foot == 8 + n + (n % 2) IN
                 /\ b.len = 12 + n + (n % 2)
                 /\ Len(b.head) + Len(b.tail) <= b.len
                 /\ [k \in 1..4 |-> PktAt(b, k - 1)] = <<68, 77, 65, 64>>
                 /\ PktAt(b, 4) = C14_TypeByte(req.data_type)
                 /\ PktAt(b, 5) * 65536 + PktAt(b, 6) * 256 + PktAt(b, 7) = n
                 /\ n % 2 = 1 => PktAt(b, 8 + n) = 255
                 /\ foot = b.len - 4
                 /\ foot % 2 = 0
                 /\ [k \in 1..4 |-> PktAt(b, foot + k - 1)] = <<67, 77, 80, 72>>
C14_Witness ==
    /\ Done({"unf_new"})
    /\ req.data_size = 5
    /\ res = "Ok"
    /\ ret.backing.len = 18
    /\ PktAt(ret.backing, 13) = 255
    /\ [k \in 1..4 |-> PktAt(ret.backing, 13 + k)] = <<67, 77, 80, 72>>

\* C15 (as the claim states it): unf_rx returns InvalidData for every type
\* code outside 1..6 in the high 8 bits of the header word it has read, and
\* never returns a packet whose type is DataTypeUnknown.
C15_UnknownType ==
    Done({"unf_rx"}) =>
        /\ (Len(io) >= 2 /\ io[2].ok /\ io[2].got[1] \notin 1..6) => res = "InvalidData"
        /\ ret # NoValue => ret.datatype # "DataTypeUnknown"

\* C16: unf_rx on a stream whose first 4 bytes are not 44 4D 41 40 returns
\* InvalidData and no packet after one read of 4 bytes: those 4 bytes have
\* left the stream and every byte after them is still in it.
C16_BadMagic ==
    (/\ Done({"unf_rx"})
     /\ Len(inq) >= 4
     /\ SubSeq(inq, 1, 4) # <<68, 77, 65, 64>>
     /\ io[1].ok) =>
        /\ res = "InvalidData"
        /\ ret = NoValue
        /\ io = <<[k |-> "r", n |-> 4, got |-> SubSeq(inq, 1, 4), ok |-> TRUE]>>
        /\ rxbuf = SubSeq(inq, 5, Len(inq))
C16_Witness ==
    /\ Done({"unf_rx"})
    /\ Len(inq) = 17
    /\ SubSeq(inq, 1, 4) = <<68, 77, 65, 65>>
    /\ res = "InvalidData"
    /\ Len(io) = 1
    /\ Len(rxbuf) = 13

\* the packet type of a type code in 1..6
C17_Type(c) ==
    CASE c = 1 -> "DataTypeText" [] c = 2 -> "DataTypeBinary" [] c = 3 -> "DataTypeHeader"
      [] c = 4 -> "DataTypeScreenshot" [] c = 5 -> "DataTypeHeartbeat"
      [] c = 6 -> "DataTypeRdbPacket"
\* C17: unf_rx on a stream holding 44 4D 41 40, a header word with type code
\* t in 1..6 and length L, and at least L + 4 more bytes, with no read failing:
\* if the 4 bytes after the L payload bytes are 43 4D 50 48 it returns the
\* packet of type t with those L bytes and has taken exactly 12 + L bytes off
\* the stream; if they are not it returns InvalidData and no packet.
C17_Decode ==
    (/\ Done({"unf_rx"})
     /\ Len(inq) >= 8
     /\ SubSeq(inq, 1, 4) = <<68, 77, 65, 64>>
     /\ inq[5] \in 1..6
     /\ Len(inq) >= 12 + inq[6] * 65536 + inq[7] * 256 + inq[8]
     /\ \A k \in 1..Len(io) : io[k].ok) =>
        LET L == inq[6] * 65536 + inq[7] * 256 + inq[8] IN
        IF SubSeq(inq, 9 + L, 12 + L) = <<67, 77, 80, 72>>
        THEN /\ res = "Ok"
             /\ ret = [t |-> "UnfRecvPacket", datatype |-> C17_Type(inq[5]),
                       data |-> SubSeq(inq, 9, 8 + L)]
             /\ rxbuf = SubSeq(inq, 13 + L, Len(inq))
             /\ Len(io) = 4
             /\ \A k \in 1..4 : io[k].k = "r"
        ELSE res = "InvalidData" /\ ret = NoValue
C17_Witness ==
    /\ Done({"unf_rx"})
    /\ Len(inq) >= 17
    /\ SubSeq(inq, 1, 8) = <<68, 77, 65, 64, 1, 0, 0, 5>>
    /\ res = "Ok"
    /\ ret.datatype = "DataTypeText"
    /\ ret.data = <<4, 7, 10, 13, 16>>
    /\ Len(inq) - Len(rxbuf) = 17

\* C18: in every operation a port call that fails is the last port call of
\* the operation, and the operation returns its error (IoError, or TimedOut
\* for a read the device did not fill); an operation that returns one of
\* these errors made a failed port call.  So in load_rom_force a failed fill
\* is followed by no RomWrite command and no data, and a failed write after
\* the fill by no port call at all.
C18_ErrorStops ==
    pc = "done" =>
        /\ \A k \in 1..Len(io) :
              ~io[k].ok =>
                 /\ k = Len(io)
                 /\ res \in {"IoError", "TimedOut"}
                 /\ io[k].k = "w" => res = "IoError"
        /\ res \in {"IoError", "TimedOut"} => (io # <<>> /\ ~io[Len(io)].ok)
C18_Witness ==
    /\ Done({"load_rom_force"})
    /\ req.data.len = 512
    /\ Len(io) = 2
    /\ io[1].ok
    /\ At(io[1].buf, 3) = 99
    /\ At(io[2].buf, 3) = 87
    /\ ~io[2].ok
    /\ res = "IoError"

\* C19 (as the claim states it): over any sequence of calls on one session,
\* calls that returned an I/O error or a timeout included, no command is
\* written while response bytes owed to a command of an earlier call are
\* still unread.
C19_OneInFlight == ~piped

\* C20: rom_fill(addr, size, value) with size a multiple of 512 makes one port
\* call, the write of the 16-byte RomFill command with addr, size/512 and
\* value: no payload follows, nothing is read, and it returns Ok exactly when
\* that write went through.
C20_RomFill ==
    (Done({"rom_fill"}) /\ req.size[2] % 512 = 0) =>
        /\ Len(io) = 1
        /\ IsCommand(io[1], 99, req.addr, req.size[1] * 128 + req.size[2] \div 512, req.val)
        /\ res = "Ok" <=> io[1].ok
        /\ rxbuf = inq
C20_Witness ==
    /\ Done({"rom_fill"})
    /\ req.size = <<16, 4096>>
    /\ req.val = <<258, 772>>
    /\ res = "Ok"
    /\ Len(io) = 1
    /\ BytesAt(io[1].buf, 8, 8) = <<0, 0, 8, 8, 1, 2, 3, 4>>

\* C21 (as the claim states it): in every fpga_init exchange the data written
\* after the FpgaInit command has as many bytes as the command announces (its
\* size field times 512).
C21_FpgaSize ==
    (Done({"fpga_init"}) /\ Len(io) >= 2) =>
        LET blocks == At(io[1].buf, 8) * 16777216 + At(io[1].buf, 9) * 65536
                      + At(io[1].buf, 10) * 256 + At(io[1].buf, 11) IN
        /\ io[2].k = "w"
        /\ io[2].buf.len = blocks * 512

\* C23 (as the claim states it): an operation that returns InvalidInput has
\* made no port call, no write and no read, and has left the stream as it
\* found it; so have load_rom and load_rom_force on an image whose length is
\* not a multiple of 512.
C23_InvalidUntouched ==
    (pc = "done" /\ res = "InvalidInput") => (io = <<>> /\ rxbuf = inq)

\* C24 (as the claim states it): load_rom on an image of at least 4 bytes, of
\* any length and with any save_type and rtc_region, returns Ok or an error
\* value: it does not abort on an index outside the image.
C24_Total ==
    (Done({"load_rom", "ed_load_rom"}) /\ req.rom_file.len >= 4) => res # "panic"

\* C25: for an image whose first word is 0x80371240, 0x37804012 or 0x40123780
\* and whose length is a multiple of 4, the image load_rom sends, patched for
\* a save_type or not, has the length of the input and begins 80 37 12 40, and
\* the byte transform selected by that first word, applied twice, gives the
\* input back.
C25_NativeImage ==
    (/\ Done({"load_rom", "ed_load_rom"})
     /\ req.rom_file.len >= 4
     /\ req.rom_file.len % 4 = 0
     /\ BytesAt(req.rom_file, 0, 4)
           \in {<<128, 55, 18, 64>>, <<55, 128, 64, 18>>, <<64, 18, 55, 128>>}) =>
        LET rom == req.rom_file
            word == from_be_bytes(At(rom, 0), At(rom, 1), At(rom, 2), At(rom, 3))
            once == byte_order(rom, word, ROM_BASE_ADDR)
            twice == byte_order(once.buf, word, ROM_BASE_ADDR) IN
        /\ res # "panic" => Len(io) >= 1
        /\ Len(io) = LoadIoLen(rom.len) =>
              /\ SentImage.len = rom.len
              /\ BytesAt(SentImage, 0, 4) = <<128, 55, 18, 64>>
        /\ ~once.panic
        /\ ~twice.panic
        /\ twice.buf.len = rom.len
        /\ \A i \in 0..(Min(rom.len, Max(Len(rom.head), Len(twice.buf.head)) + 8) - 1) :
              At(twice.buf, i) = At(rom, i)
C25_Witness ==
    /\ Done({"load_rom"})
    /\ req.save_type.some
    /\ BytesAt(req.rom_file, 0, 4) = <<55, 128, 64, 18>>
    /\ res = "Ok"
    /\ Len(io) = 3
    /\ SentImage.len = 512
    /\ BytesAt(SentImage, 0, 4) = <<128, 55, 18, 64>>
    /\ At(SentImage, 60) = 69

\* the packet bytes that stood at the head of the stream unf_rx was called on
Played == SubSeq(inq, 1, pkt.backing.len)

\* C22: the bytes of a packet of a type 1..6 built by UnfSendPacket::new and
\* sent by unf_tx, played back to unf_rx: with an even payload length unf_rx
\* returns Ok with the packet's type and payload and has read the whole
\* packet; with an odd payload length its fourth read takes the pad byte 0xFF
\* and the first three footer bytes as the footer word, it returns InvalidData
\* with no packet, and the last footer byte (0x48) is left in the stream.
C22_RoundTrip ==
    (/\ Done({"unf_rx"})
     /\ pkt # NoValue
     /\ Len(inq) >= pkt.backing.len
     /\ Played = Flatten(pkt.backing)
     /\ PktAt(pkt.backing, 4) \in 1..6) =>
        LET n == pkt.data_size
            payload == [k \in 1..n |-> PktAt(pkt.backing, 8 + k - 1)] IN
        IF n % 2 = 0
        THEN /\ res = "Ok"
             /\ ret.t = "UnfRecvPacket"
             /\ UnfDataType_into(ret.datatype) = PktAt(pkt.backing, 4)
             /\ ret.data = payload
             /\ rxbuf = SubSeq(inq, pkt.backing.len + 1, Len(inq))
        ELSE /\ res = "InvalidData"
             /\ ret = NoValue
             /\ Len(io) = 4
             /\ io[3].got = payload
             /\ io[4].got = <<255, 67, 77, 80>>
             /\ rxbuf = <<72>> \o SubSeq(inq, pkt.backing.len + 1, Len(inq))

C22_Witness ==
    /\ Done({"unf_rx"})
    /\ pkt # NoValue
    /\ pkt.data_size = 5
    /\ nwrites = 2
    /\ PktAt(pkt.backing, 4) = 6
    /\ inq = Flatten(pkt.backing)
    /\ io[3].got = <<7, 0, 0, 0, 255>>
    /\ res = "InvalidData"
    /\ rxbuf = <<72>>

\* the bytes of packet buffer b outside its payload of n bytes are the frame
\* of a packet of the type byte ty: magic, type, 3-byte length, pad, footer
Framed(b, n, ty) ==
    /\ b.len = n + 12 + (n % 2)
    /\ [k \in 1..8 |-> PktAt(b, k - 1)]
         = <<68, 77, 65, 64, ty, (n \div 65536) % 256, (n \div 256) % 256, n % 256>>
    /\ (n % 2 = 1) => PktAt(b, 8 + n) = 255
    /\ [k \in 1..4 |-> PktAt(b, b.len - 4 + k - 1)] = <<67, 77, 80, 72>>

\* C26: whatever the caller has written through the get_data view, the
\* packet keeps the length, the magic, the type byte, the 3-byte length, the
\* pad byte and the footer that UnfSendPacket::new gave it, a write at an
\* index of the view changes the byte 8 + index only and one past its n
\* bytes panics, and unf_tx writes that buffer.
C26_ViewFrame ==
    /\ pkt # NoValue =>
          /\ pkt.data_size = built.data_size
          /\ pkt.backing.len = built.backing.len
          /\ Framed(built.backing, built.data_size, PktAt(built.backing, 4))
          /\ Framed(pkt.backing, built.data_size, PktAt(built.backing, 4))
          /\ get_data(pkt).hi - get_data(pkt).lo = pkt.data_size
    /\ (Done({"unf_tx"}) /\ Len(io) >= 1) =>
          /\ Len(io) = 1
          /\ io[1].k = "w"
          /\ io[1].buf = pkt.backing
          /\ Framed(io[1].buf, built.data_size, PktAt(built.backing, 4))
    /\ Done({"get_data"}) => res = "panic"

C26_Witness ==
    /\ Done({"unf_tx"})
    /\ res = "Ok"
    /\ nwrites = 2
    /\ built.data_size = 5
    /\ PktAt(built.backing, 8) = 0
    /\ PktAt(io[1].buf, 8) = 7
    /\ PktAt(io[1].buf, 12) = 255
    /\ PktAt(io[1].buf, 13) = 255
    /\ io[1].buf.len = 18

\* a port call of one context directly follows a port call of the other
\* context's operation that was not its last
Interleaved ==
    \E m \in 2..Len(who) : ~who[m - 1].last /\ who[m].c # who[m - 1].c

\* a payload write or an ack read stands on the port directly behind a port
\* call of the other context, not behind the command it belongs to
Misattributed ==
    \E m \in 2..Len(who) : who[m].k > 1 /\ who[m].c # who[m - 1].c

=============================================================================
